---- MODULE Spec2Model ----
(***************************************************************************)
(* Model of src/app/app.py: a Flask service with six routes (/, /health,   *)
(* /ready, /compute, /metrics, /info), a 404 and a 500 error handler.      *)
(*                                                                         *)
(* Time is counted in ticks of 10^-FracDigits seconds.  A float is a       *)
(* record [k, v]: k is "fin" (v ticks), "inf", "ninf" or "nan".            *)
(* Each worker thread of the threaded server serves one request; the       *)
(* threads share only the immutable identity and the wall clock.           *)
(* The wall clock (time.time()) is taken to be non-decreasing; it advances *)
(* while a thread runs an inner pass, so the time a request sees go by     *)
(* between two reads is that of its own pass and of the other thread's.    *)
(***************************************************************************)
EXTENDS Integers, Sequences, FiniteSets, TLC

\* ------------------------------------------------------------ bounds
\* Decimal digits of a second the clock resolves (3: one tick is 1 ms).
FracDigits == 3
\* Ticks an inner pass takes when the CPU is fast.
ShortPass == 4
\* Seconds an inner pass takes when the thread is starved of CPU.
LongPassSec == 60
\* A request's passes after the first MaxShortPasses take the long time.
MaxShortPasses == 2

\* ------------------------------------------------- program constants
\* min(duration, 60.0)
MaxDurationSec == 60
\* request.args.get('duration', 1.0)
DefaultDurationSec == 1
\* for i in range(1000)
RangeN == 1000
\* round(elapsed, 2) and {elapsed:.2f}
RoundDigits == 2

RECURSIVE Pow10(_)
Pow10(n) == IF n = 0 THEN 1 ELSE 10 * Pow10(n - 1)

TicksPerSec == Pow10(FracDigits)
\* Ticks in one unit of the last decimal place round(_, 2) keeps.
Hundredth == Pow10(FracDigits - RoundDigits)
MaxDuration == MaxDurationSec * TicksPerSec
LongPass == LongPassSec * TicksPerSec

\* The worker threads modelled, each serving one request.
Threads == {1, 2}

\* ------------------------------------------------------------ floats
Fin(v) == [k |-> "fin", v |-> v]
PosInf == [k |-> "inf", v |-> 0]
NegInf == [k |-> "ninf", v |-> 0]
NaN == [k |-> "nan", v |-> 0]

\* a < b on floats: false whenever either side is nan.
FLt(a, b) ==
    CASE a.k = "nan" \/ b.k = "nan" -> FALSE
      [] a.k = "ninf" -> b.k # "ninf"
      [] a.k = "inf" -> FALSE
      [] b.k = "ninf" -> FALSE
      [] b.k = "inf" -> TRUE
      [] OTHER -> a.v < b.v

\* Python's min(a, b): b if b < a, else a (so min(nan, 60.0) is nan).
PyMin_Max(a, b) == IF FLt(a, b) THEN b ELSE a
PyMin_NoCap(a, b) == a
PyMin(a, b) == IF FLt(b, a) THEN b ELSE a

\* round(x, 2): to the nearest hundredth, a tie to the even hundredth.
Round2(x) ==
    LET q == x \div Hundredth
        rem == x % Hundredth
    IN  IF 2 * rem < Hundredth THEN q * Hundredth
        ELSE IF 2 * rem > Hundredth THEN (q + 1) * Hundredth
        ELSE IF q % 2 = 0 THEN q * Hundredth ELSE (q + 1) * Hundredth

\* ------------------------------------------------------------ float(str)
Digits == {"0", "1", "2", "3", "4", "5", "6", "7", "8", "9"}
DigitVal(c) ==
    CASE c = "0" -> 0 [] c = "1" -> 1 [] c = "2" -> 2 [] c = "3" -> 3
      [] c = "4" -> 4 [] c = "5" -> 5 [] c = "6" -> 6 [] c = "7" -> 7
      [] c = "8" -> 8 [] c = "9" -> 9

AllDigits(s) == \A i \in 1..Len(s) : s[i] \in Digits

RECURSIVE IntValue(_)
IntValue(s) ==
    IF s = <<>> THEN 0
    ELSE 10 * IntValue(SubSeq(s, 1, Len(s) - 1)) + DigitVal(s[Len(s)])

\* The digits after the point, in ticks (digits past the resolution drop).
RECURSIVE FracValue(_, _)
FracValue(s, unit) ==
    IF s = <<>> THEN 0
    ELSE DigitVal(s[1]) * (unit \div 10) + FracValue(Tail(s), unit \div 10)

\* An unsigned decimal: digits, at most one point, at least one digit.
DotAt(s) == {i \in 1..Len(s) : s[i] = "."}
IsDecimal(s) ==
    \/ Len(s) >= 1 /\ AllDigits(s)
    \/ \E i \in DotAt(s) :
          /\ AllDigits(SubSeq(s, 1, i - 1))
          /\ AllDigits(SubSeq(s, i + 1, Len(s)))
          /\ Len(s) >= 2
DecimalValue(s) ==
    IF DotAt(s) = {} THEN IntValue(s) * TicksPerSec
    ELSE LET i == CHOOSE j \in DotAt(s) : TRUE
         IN  IntValue(SubSeq(s, 1, i - 1)) * TicksPerSec
               + FracValue(SubSeq(s, i + 1, Len(s)), TicksPerSec)

Signed(s) == s # <<>> /\ s[1] \in {"-", "+"}
Unsigned(s) == IF Signed(s) THEN Tail(s) ELSE s
Negative(s) == s # <<>> /\ s[1] = "-"

\* float(s) of a string: [ok, val]; ok = FALSE is the ValueError.
ParseFloat_Lenient(s) ==
    LET u == Unsigned(s)
    IN  IF IsDecimal(u)
        THEN [ok |-> TRUE,
              val |-> Fin(IF Negative(s) THEN 0 - DecimalValue(u) ELSE DecimalValue(u))]
        ELSE [ok |-> TRUE, val |-> Fin(DefaultDurationSec * TicksPerSec)]
ParseFloat(s) ==
    LET u == Unsigned(s)
    IN  CASE u = <<"i", "n", "f">> ->
               [ok |-> TRUE, val |-> IF Negative(s) THEN NegInf ELSE PosInf]
          [] u = <<"n", "a", "n">> -> [ok |-> TRUE, val |-> NaN]
          [] IsDecimal(u) ->
               [ok |-> TRUE,
                val |-> Fin(IF Negative(s) THEN 0 - DecimalValue(u) ELSE DecimalValue(u))]
          [] OTHER -> [ok |-> FALSE, val |-> NaN]

\* The duration query parameter: absent, or the text given.
Absent == [given |-> FALSE, text |-> <<>>]
Given(s) == [given |-> TRUE, text |-> s]

\* float(request.args.get('duration', 1.0))
DurationArg(arg) ==
    IF arg.given THEN ParseFloat(arg.text)
    ELSE [ok |-> TRUE, val |-> Fin(DefaultDurationSec * TicksPerSec)]

\* ------------------------------------------------------------ the inner pass
RECURSIVE SetSum(_)
SetSum(S) == IF S = {} THEN 0 ELSE LET x == CHOOSE y \in S : TRUE IN x + SetSum(S \ {x})

\* sum(j for j in range(2, i) if i % j == 0)
DivisorSum(i) == SetSum({j \in 2..(i - 1) : i % j = 0})

\* The sum of f over lo..hi-1, halving the range.
RECURSIVE RangeSum(_, _)
RangeSum(lo, hi) ==
    IF hi <= lo THEN 0
    ELSE IF hi = lo + 1 THEN DivisorSum(lo)
    ELSE LET mid == (lo + hi) \div 2 IN RangeSum(lo, mid) + RangeSum(mid, hi)

\* What one pass of `for i in range(1000)` adds to result.
PassSum == RangeSum(0, RangeN)

\* ------------------------------------------------------------ routing
Rules == {"/", "/health", "/ready", "/compute", "/metrics", "/info"}
\* @app.route without methods=: GET, and HEAD and OPTIONS with it.
RuleMethods == {"GET", "HEAD", "OPTIONS"}
Endpoint(path) ==
    CASE path = "/" -> "hello"
      [] path = "/health" -> "health"
      [] path = "/ready" -> "ready"
      [] path = "/compute" -> "compute"
      [] path = "/metrics" -> "metrics"
      [] path = "/info" -> "info"

\* The URL map's match: a view function, or the HTTP error it raises.
Match_CatchAll(method, path) ==
    IF method \notin RuleMethods THEN "method_not_allowed"
    ELSE IF path \in Rules THEN Endpoint(path) ELSE "hello"
Match(method, path) ==
    IF path \notin Rules THEN "not_found"
    ELSE IF method \notin RuleMethods THEN "method_not_allowed"
    ELSE Endpoint(path)

\* ------------------------------------------------------------ inputs
Paths == Rules \cup {"/nope", "/health/"}
PostPaths == {"/", "/compute", "/nope"}
DurationTexts ==
    { <<"0">>, <<"-", "1">>, <<"0", ".", "0", "0", "4">>, <<"0", ".", "0", "0", "6">>,
      <<"6", "1">>, <<"-", "i", "n", "f">>, <<"n", "a", "n">>, <<"a", "b", "c">>, <<>> }
RequestInputs ==
    {[method |-> "GET", path |-> p, arg |-> Absent] : p \in Paths}
      \cup {[method |-> "POST", path |-> p, arg |-> Absent] : p \in PostPaths}
      \cup {[method |-> "GET", path |-> "/compute", arg |-> Given(s)] : s \in DurationTexts}

\* The process environment at start: the variables that are set.
HostAddress == "10.0.0.7"
Envs ==
    { [PORT |-> "8080"],
      [PORT |-> "8080", POD_NAME |-> "worker-3", POD_NAMESPACE |-> "prod",
       POD_IP |-> "10.8.0.3"] }

\* os.environ.get(key, default)
EnvGet(e, key, default) == IF key \in DOMAIN e THEN e[key] ELSE default

\* POD_NAME, POD_NAMESPACE, POD_IP as the module sets them when it is loaded.
ReadIdentity(e) ==
    [pod_name |-> EnvGet(e, "POD_NAME", "unknown-pod"),
     pod_namespace |-> EnvGet(e, "POD_NAMESPACE", "default"),
     pod_ip |-> EnvGet(e, "POD_IP", HostAddress)]

\* ------------------------------------------------------------ state
VARIABLES
    env,        \* os.environ of the process
    identity,   \* POD_NAME, POD_NAMESPACE, POD_IP
    clock,      \* time.time(), in ticks
    pc,         \* where each thread is in its request
    req,        \* the request each thread received
    duration,   \* compute: the effective duration (a float)
    start_time, \* compute: start_time
    result,     \* compute: result
    passes,     \* compute: inner passes completed
    passStart,  \* compute: the clock when the latest pass was entered
    elapsed,    \* compute: elapsed, as line 77 sets it
    log,        \* the lines each thread's request logged
    resp        \* the response each thread sent

vars == <<env, identity, clock, pc, req, duration, start_time, result,
          passes, passStart, elapsed, log, resp>>

computeVars == <<duration, start_time, result, passes, passStart, elapsed>>

NoRequest == [method |-> "", path |-> "", arg |-> Absent]
NoResponse == [status |-> 0, ctype |-> "", body |-> [none |-> TRUE]]

Init ==
    /\ env \in Envs
    /\ identity = ReadIdentity(env)
    /\ clock = 0
    /\ pc = [r \in Threads |-> "idle"]
    /\ req = [r \in Threads |-> NoRequest]
    /\ duration = [r \in Threads |-> NaN]
    /\ start_time = [r \in Threads |-> 0]
    /\ result = [r \in Threads |-> 0]
    /\ passes = [r \in Threads |-> 0]
    /\ passStart = [r \in Threads |-> 0]
    /\ elapsed = [r \in Threads |-> 0]
    /\ log = [r \in Threads |-> <<>>]
    /\ resp = [r \in Threads |-> NoResponse]

\* Some thread is inside compute, where the clock is read.
Computing == \E r \in Threads : pc[r] \in {"loop", "pass", "after"}

\* ------------------------------------------------------------ responses
\* jsonify(body), status
Json(status, body) == [status |-> status, ctype |-> "application/json", body |-> body]

\* datetime.utcnow().isoformat()
Timestamp == clock

\* The name the handlers put in a response: the module-level POD_NAME.
PodName_Default == "unknown-pod"
PodName == identity.pod_name

\* logger.info / logger.error
LogLine(level, msg) == [level |-> level, msg |-> msg, pod |-> PodName]

\* not_found(error)
not_found == Json(404, [error |-> "Not found", status |-> 404, pod_name |-> PodName])

\* internal_error(error): the response; the handler also logs one error line.
internal_error ==
    Json(500, [error |-> "Internal server error", status |-> 500, pod_name |-> PodName])

\* werkzeug's own page for an HTTP error no handler is registered for.
DefaultErrorPage(status, title) ==
    [status |-> status, ctype |-> "text/html", body |-> [title |-> title]]

\* A request on thread r is answered at once: no compute state changes.
Answer(r, q, lines, response) ==
    /\ req' = [req EXCEPT ![r] = q]
    /\ log' = [log EXCEPT ![r] = lines]
    /\ resp' = [resp EXCEPT ![r] = response]
    /\ pc' = [pc EXCEPT ![r] = "done"]
    /\ UNCHANGED <<env, identity, clock, computeVars>>

\* ------------------------------------------------------------ handlers
\* hello()
Hello(r) ==
    /\ pc[r] = "idle"
    /\ \E q \in RequestInputs :
          /\ Match(q.method, q.path) = "hello"
          /\ Answer(r, q, <<LogLine("INFO", "Request received")>>,
                    Json(200, [message |-> "Hello, World!", pod_name |-> PodName,
                               pod_namespace |-> identity.pod_namespace,
                               pod_ip |-> identity.pod_ip, timestamp |-> Timestamp,
                               version |-> "1.0"]))

\* health()
Health_Busy(r) ==
    /\ pc[r] = "idle"
    /\ \E q \in RequestInputs :
          /\ Match(q.method, q.path) = "health"
          /\ Answer(r, q, <<>>,
                    IF Computing
                    THEN Json(503, [status |-> "busy", pod_name |-> PodName,
                                    timestamp |-> Timestamp])
                    ELSE Json(200, [status |-> "healthy", pod_name |-> PodName,
                                    timestamp |-> Timestamp]))
Health(r) ==
    /\ pc[r] = "idle"
    /\ \E q \in RequestInputs :
          /\ Match(q.method, q.path) = "health"
          /\ Answer(r, q, <<>>,
                    Json(200, [status |-> "healthy", pod_name |-> PodName,
                               timestamp |-> Timestamp]))

\* ready()
Ready(r) ==
    /\ pc[r] = "idle"
    /\ \E q \in RequestInputs :
          /\ Match(q.method, q.path) = "ready"
          /\ Answer(r, q, <<>>,
                    Json(200, [status |-> "ready", pod_name |-> PodName,
                               timestamp |-> Timestamp]))

\* metrics()
Metrics(r) ==
    /\ pc[r] = "idle"
    /\ \E q \in RequestInputs :
          /\ Match(q.method, q.path) = "metrics"
          /\ Answer(r, q, <<>>,
                    Json(200, [pod_name |-> PodName,
                               pod_namespace |-> identity.pod_namespace,
                               pod_ip |-> identity.pod_ip, timestamp |-> Timestamp]))

\* info()
Info(r) ==
    /\ pc[r] = "idle"
    /\ \E q \in RequestInputs :
          /\ Match(q.method, q.path) = "info"
          /\ Answer(r, q, <<>>,
                    Json(200, [pod_name |-> PodName,
                               pod_namespace |-> identity.pod_namespace,
                               pod_ip |-> identity.pod_ip,
                               python_version |-> "os.sys.version",
                               timestamp |-> Timestamp]))

\* No rule matches the path: the registered 404 handler answers.
NotFound(r) ==
    /\ pc[r] = "idle"
    /\ \E q \in RequestInputs :
          /\ Match(q.method, q.path) = "not_found"
          /\ Answer(r, q, <<>>, not_found)

\* A rule matches the path but not the method: no handler is registered
\* for 405, so the framework's own page answers.
MethodNotAllowed(r) ==
    /\ pc[r] = "idle"
    /\ \E q \in RequestInputs :
          /\ Match(q.method, q.path) = "method_not_allowed"
          /\ Answer(r, q, <<>>, DefaultErrorPage(405, "405 Method Not Allowed"))

\* compute(), lines 62-69: log, parse, clamp, read the clock.  A ValueError
\* from float() leaves the view; the registered 500 handler logs and answers.
ComputeStart(r) ==
    /\ pc[r] = "idle"
    /\ \E q \in RequestInputs :
          /\ Match(q.method, q.path) = "compute"
          /\ LET received == LogLine("INFO", "Compute request received")
                 parsed == DurationArg(q.arg)
             IN  IF parsed.ok
                 THEN /\ req' = [req EXCEPT ![r] = q]
                      /\ log' = [log EXCEPT ![r] = <<received>>]
                      /\ duration' = [duration EXCEPT
                                        ![r] = PyMin(parsed.val, Fin(MaxDuration))]
                      /\ start_time' = [start_time EXCEPT ![r] = clock]
                      /\ passStart' = [passStart EXCEPT ![r] = clock]
                      /\ result' = [result EXCEPT ![r] = 0]
                      /\ pc' = [pc EXCEPT ![r] = "loop"]
                      /\ UNCHANGED <<env, identity, clock, passes, elapsed, resp>>
                 ELSE Answer(r, q,
                             <<received, LogLine("ERROR", "Internal error")>>,
                             internal_error)

\* time.time() - start_time < duration
LoopCond_Reversed(r) == FLt(duration[r], Fin(clock - start_time[r]))
LoopCond_Inclusive(r) ==
    LET e == Fin(clock - start_time[r]) IN FLt(e, duration[r]) \/ e = duration[r]
LoopCond(r) == FLt(Fin(clock - start_time[r]), duration[r])

\* Line 72: the while condition reads the clock.
LoopCheck(r) ==
    /\ pc[r] = "loop"
    /\ pc' = [pc EXCEPT ![r] = IF LoopCond(r) THEN "pass" ELSE "after"]
    /\ passStart' = [passStart EXCEPT ![r] = IF LoopCond(r) THEN clock ELSE @]
    /\ UNCHANGED <<env, identity, clock, req, duration, start_time, result,
                   passes, elapsed, log, resp>>

\* The time a pass of thread r may take.
PassTimes(r) == IF passes[r] < MaxShortPasses THEN {ShortPass, LongPass} ELSE {LongPass}

\* Lines 74-75: one inner pass; it takes time.
Pass(r) ==
    /\ pc[r] = "pass"
    /\ \E d \in PassTimes(r) : clock' = clock + d
    /\ result' = [result EXCEPT ![r] = @ + PassSum]
    /\ passes' = [passes EXCEPT ![r] = @ + 1]
    /\ pc' = [pc EXCEPT ![r] = "loop"]
    /\ UNCHANGED <<env, identity, req, duration, start_time, passStart,
                   elapsed, log, resp>>

\* The "Computation completed" line, with {elapsed:.2f}.
CompletedLine_Raw(e) ==
    [level |-> "INFO", msg |-> "Computation completed", pod |-> PodName, elapsed |-> e]
CompletedLine(e) ==
    [level |-> "INFO", msg |-> "Computation completed", pod |-> PodName,
     elapsed |-> Round2(e)]

\* Lines 77-88: read the clock, log, answer.
ComputeFinish(r) ==
    /\ pc[r] = "after"
    /\ LET e == clock - start_time[r]
       IN  /\ elapsed' = [elapsed EXCEPT ![r] = e]
           /\ log' = [log EXCEPT ![r] = Append(@, CompletedLine(e))]
           /\ resp' = [resp EXCEPT ![r] =
                         Json(200, [message |-> "Computation completed",
                                    pod_name |-> PodName,
                                    duration_requested |-> duration[r],
                                    duration_actual |-> Round2(e),
                                    result |-> result[r],
                                    timestamp |-> Timestamp])]
    /\ pc' = [pc EXCEPT ![r] = "done"]
    /\ UNCHANGED <<env, identity, clock, req, duration, start_time, result,
                   passes, passStart>>

\* One step of the request thread r serves.
Step(r) ==
    \/ Hello(r)
    \/ Health(r)
    \/ Ready(r)
    \/ Metrics(r)
    \/ Info(r)
    \/ NotFound(r)
    \/ MethodNotAllowed(r)
    \/ ComputeStart(r)
    \/ LoopCheck(r)
    \/ Pass(r)
    \/ ComputeFinish(r)

Next == \E r \in Threads : Step(r)

Spec == Init /\ [][Next]_vars

\* The threads of the server are scheduled fairly: a thread inside compute
\* that can take its next step eventually takes it.
Running(r) == LoopCheck(r) \/ Pass(r) \/ ComputeFinish(r)
FairSpec == Spec /\ \A r \in Threads : WF_vars(Running(r))

\* ------------------------------------------------------------ the claims
Done(r) == pc[r] = "done"
InCompute(r) == pc[r] \in {"loop", "pass", "after"}
Get(r, path) == req[r].method = "GET" /\ req[r].path = path
\* A JSON body whose status field is the HTTP status of the response.
Envelope(x) ==
    /\ x.ctype = "application/json"
    /\ "status" \in DOMAIN x.body
    /\ x.body.status = x.status
\* Thread r's compute request parsed its duration and went on to the loop.
Computed(r) == Get(r, "/compute") /\ (InCompute(r) \/ (Done(r) /\ resp[r].status = 200))
\* The duration parameter of thread r's request, as a float.
Param(r) == DurationArg(req[r].arg).val
InRange(x) == x.k = "fin" /\ 0 <= x.v /\ x.v <= MaxDuration
NonPositive(x) == x.k = "ninf" \/ (x.k = "fin" /\ x.v <= 0)
Count(lines, level) == Cardinality({i \in 1..Len(lines) : lines[i].level = level})

\* C1 as stated: for a duration D in [0, 60] the reported duration_actual
\* is at least D and at most D plus the time of one inner pass (here the
\* longest time a pass takes).
C1_Original ==
    \A r \in Threads :
        Computed(r) /\ Done(r) /\ InRange(Param(r)) =>
            /\ resp[r].body.duration_actual >= Param(r).v
            /\ resp[r].body.duration_actual <= Param(r).v + LongPass

\* C1, amended: for a duration D in [0, 60] the elapsed time line 77 measures
\* is at least D, and the last pass (if any) was entered while the elapsed
\* time was still below D, so elapsed exceeds D by no more than the time from
\* the start of the last pass to the final clock reading; duration_actual is
\* that elapsed time rounded to the hundredth: at least D rounded to the
\* hundredth and within half a hundredth of elapsed.
C1_ElapsedBounds ==
    \A r \in Threads :
        Computed(r) /\ Done(r) /\ InRange(Param(r)) =>
            LET D == Param(r).v
                e == elapsed[r]
                a == resp[r].body.duration_actual
            IN  /\ e >= D
                /\ passStart[r] - start_time[r] <= D
                /\ passes[r] > 0 => passStart[r] - start_time[r] < D
                /\ a >= Round2(D)
                /\ 2 * (a - e) <= Hundredth
                /\ 2 * (e - a) <= Hundredth
                /\ a % Hundredth = 0

C1_Witness ==
    \E r \in Threads :
        /\ Computed(r) /\ Done(r) /\ InRange(Param(r))
        /\ Param(r).v > 0
        /\ passes[r] >= 1
        /\ resp[r].body.duration_actual < Param(r).v

\* C2: the effective duration is 60.0 for every numeric parameter above 60
\* and the parameter itself for every one at most 60, zero and negative ones
\* included; duration_requested carries the effective value.
C2_Clamp ==
    \A r \in Threads :
        Computed(r) /\ Param(r).k # "nan" =>
            LET D == Param(r)
                above == D.k = "inf" \/ (D.k = "fin" /\ D.v > MaxDurationSec * TicksPerSec)
            IN  /\ above => duration[r] = Fin(MaxDurationSec * TicksPerSec)
                /\ ~above => duration[r] = D
                /\ Done(r) => resp[r].body.duration_requested = duration[r]

C2_Witness ==
    \E r \in Threads :
        /\ Computed(r) /\ Done(r)
        /\ req[r].arg = Given(<<"6", "1">>)
        /\ resp[r].body.duration_requested = Fin(60 * TicksPerSec)

\* C3: every GET /health is answered 200 "healthy" and every GET /ready 200
\* "ready", whatever the other threads are doing or have answered; and an
\* idle thread can always serve either.
C3_Probes ==
    \A r \in Threads :
        /\ Done(r) /\ Get(r, "/health") =>
              /\ resp[r].status = 200
              /\ resp[r].ctype = "application/json"
              /\ resp[r].body.status = "healthy"
        /\ Done(r) /\ Get(r, "/ready") =>
              /\ resp[r].status = 200
              /\ resp[r].ctype = "application/json"
              /\ resp[r].body.status = "ready"
        /\ pc[r] = "idle" => ENABLED Health(r) /\ ENABLED Ready(r)

C3_Witness ==
    \E r, t \in Threads :
        /\ Done(r) /\ Get(r, "/health") /\ resp[r].status = 200
        /\ pc[t] = "pass" /\ passes[t] >= 1

\* C4 as stated: every failed request is answered with a JSON envelope
\* whose status field is the HTTP status of the response.
C4_Original ==
    \A r \in Threads : Done(r) /\ resp[r].status >= 400 => Envelope(resp[r])

\* C5: a request to a path that is none of the six routes is answered 404
\* with a JSON body holding status 404 and the pod name, and runs no view:
\* no log line, no pass.
C5_NotFound ==
    \A r \in Threads :
        pc[r] # "idle"
          /\ req[r].path \notin {"/", "/health", "/ready", "/compute", "/metrics", "/info"} =>
            /\ Done(r)
            /\ resp[r].status = 404
            /\ Envelope(resp[r])
            /\ resp[r].body.pod_name = identity.pod_name
            /\ log[r] = <<>>
            /\ passes[r] = 0 /\ result[r] = 0

C5_Witness ==
    \E r \in Threads :
        Done(r) /\ req[r].path = "/nope" /\ req[r].method = "GET" /\ resp[r].status = 404

\* C6: the identity is what the environment set at start (or the
\* defaults) in every state, and every response that carries pod_name
\* carries that name.
C6_Identity ==
    /\ identity.pod_name = (IF "POD_NAME" \in DOMAIN env THEN env.POD_NAME ELSE "unknown-pod")
    /\ identity.pod_namespace =
          (IF "POD_NAMESPACE" \in DOMAIN env THEN env.POD_NAMESPACE ELSE "default")
    /\ identity.pod_ip = (IF "POD_IP" \in DOMAIN env THEN env.POD_IP ELSE HostAddress)
    /\ \A r \in Threads :
          Done(r) /\ "pod_name" \in DOMAIN resp[r].body =>
              resp[r].body.pod_name = identity.pod_name

C6_Witness ==
    /\ "POD_NAME" \in DOMAIN env /\ env.POD_NAME = "worker-3"
    /\ \E r, t \in Threads :
          /\ Done(r) /\ resp[r].status = 200 /\ resp[r].body.pod_name = "worker-3"
          /\ Done(t) /\ resp[t].status >= 400 /\ resp[t].ctype = "application/json"
          /\ resp[t].body.pod_name = "worker-3"

\* C7 as stated: exactly one info line per GET on / and per GET on /compute,
\* one error line per server fault, no line for any other request.
C7_Original ==
    \A r \in Threads :
        Done(r) /\ req[r].method = "GET" =>
            /\ req[r].path \in {"/", "/compute"} => Count(log[r], "INFO") = 1
            /\ Count(log[r], "ERROR") = (IF resp[r].status = 500 THEN 1 ELSE 0)
            /\ req[r].path \notin {"/", "/compute"} => log[r] = <<>>

\* C7, amended: a GET on / logs exactly one info line; a GET on /compute logs
\* one info line on receipt and, when the duration parses, a second info line
\* on completion that carries the elapsed time to two decimals (two info
\* lines), or, when it does not parse, one error line after the first info
\* line; every line carries the pod name; no other request logs a line.
C7_LogLines ==
    \A r \in Threads :
        Done(r) =>
            LET received == [level |-> "INFO", msg |-> "Compute request received",
                             pod |-> identity.pod_name]
            IN  CASE Get(r, "/") ->
                       log[r] = <<[level |-> "INFO", msg |-> "Request received",
                                   pod |-> identity.pod_name]>>
                  [] Get(r, "/compute") /\ resp[r].status = 200 ->
                       log[r] = <<received,
                                  [level |-> "INFO", msg |-> "Computation completed",
                                   pod |-> identity.pod_name,
                                   elapsed |-> resp[r].body.duration_actual]>>
                  [] Get(r, "/compute") /\ resp[r].status # 200 ->
                       /\ resp[r].status = 500
                       /\ log[r] = <<received,
                                     [level |-> "ERROR", msg |-> "Internal error",
                                      pod |-> identity.pod_name]>>
                  [] OTHER -> log[r] = <<>>

C7_Witness ==
    \E r \in Threads :
        /\ Done(r) /\ Get(r, "/compute") /\ resp[r].status = 200
        /\ Count(log[r], "INFO") = 2
        /\ passes[r] >= 1

\* With a zero or negative duration the first check ends the loop: no
\* pass ever runs, the answer is 200 with result 0 and the value unchanged as
\* duration_requested.  With a positive duration, a first check that reads
\* elapsed < duration enters a pass, and a pass that ends has added one to
\* the passes and its sum to result.
C8_NoPass ==
    \A r \in Threads :
        Computed(r) /\ NonPositive(Param(r)) =>
            /\ pc[r] # "pass"
            /\ passes[r] = 0
            /\ Done(r) =>
                  /\ resp[r].status = 200
                  /\ resp[r].body.result = 0
                  /\ resp[r].body.duration_requested = Param(r)
C8_FirstPass ==
    \A r \in Threads :
        /\ (/\ pc[r] = "loop" /\ pc'[r] # "loop" /\ passes[r] = 0
            /\ duration[r].k = "fin" /\ duration[r].v > 0
            /\ clock - start_time[r] < duration[r].v)
              => pc'[r] = "pass"
        /\ pc[r] = "pass" /\ pc'[r] # "pass" =>
              /\ passes'[r] = passes[r] + 1
              /\ result'[r] = result[r] + PassSum
\* C8: in every state a zero or negative duration has run no pass and is
\* answered 200 with result 0, and in every step the loop enters and leaves
\* its passes as the while condition says.
C8_ZeroDuration == []C8_NoPass /\ [][C8_FirstPass]_vars

C8_Witness ==
    \E r \in Threads :
        /\ Done(r) /\ Get(r, "/compute")
        /\ req[r].arg = Given(<<"-", "1">>)
        /\ resp[r].status = 200 /\ resp[r].body.result = 0
        /\ resp[r].body.duration_requested = Fin(0 - TicksPerSec)
        /\ elapsed[r] > 0

\* C9: a GET /compute whose duration is no number never reaches the loop: it
\* is answered 500 with a JSON body holding status 500 and the pod name, logs
\* one error line after the receipt line and no completion line, runs no pass.
C9_BadDuration ==
    \A r \in Threads :
        (/\ pc[r] # "idle" /\ Get(r, "/compute") /\ req[r].arg.given
         /\ req[r].arg.text \in {<<"a", "b", "c">>, <<>>}) =>
            /\ Done(r)
            /\ resp[r].status = 500
            /\ Envelope(resp[r])
            /\ resp[r].body.pod_name = identity.pod_name
            /\ Count(log[r], "ERROR") = 1
            /\ \A i \in 1..Len(log[r]) : log[r][i].msg # "Computation completed"
            /\ passes[r] = 0 /\ result[r] = 0

C9_Witness ==
    \E r \in Threads :
        /\ Done(r) /\ Get(r, "/compute")
        /\ req[r].arg = Given(<<"a", "b", "c">>)
        /\ resp[r].status = 500
        /\ Len(log[r]) = 2

\* Every pass is entered less than 60 seconds after start_time, so the loop
\* holds its thread for no more than 60 seconds and the last pass; the clock
\* has advanced by at least one tick for every pass.
C10_Bounded ==
    \A r \in Threads :
        /\ pc[r] = "pass" => passStart[r] - start_time[r] < MaxDurationSec * TicksPerSec
        /\ Computed(r) => passes[r] <= clock - start_time[r]
====
